---- MODULE Spec2Model ----
(***************************************************************************)
(* EcoSchool -- School Carbon Calculator (EcoSchool_Streamlit_App.py).     *)
(*                                                                         *)
(* The SQLite database (tables factors, entries and SQLite's own           *)
(* sqlite_sequence row for the AUTOINCREMENT key) is shared by every       *)
(* browser session.  Each session executes main() from top to bottom once  *)
(* per user interaction (a Streamlit script run); every database helper    *)
(* opens its own connection and commits once, so a helper call is one      *)
(* atomic step and the runs of different sessions interleave between       *)
(* helper calls.                                                           *)
(*                                                                         *)
(* Units.  Reals are modelled as scaled integers: a factor f is stored as  *)
(* 1000*f, a quantity as itself, hence co2 as 1000*kg.  Instants are       *)
(* counted in half days, so that a date (midnight) is 2*day and "now" is   *)
(* noon of the current day.                                                *)
(***************************************************************************)
EXTENDS Integers, Sequences, FiniteSets, TLC

(***************************************************************************)
(* Bounds of the model and program constants                               *)
(***************************************************************************)

\* at most this many rows are ever inserted into entries
MaxEntries == 2

Sessions == {"s1", "s2"}

ADMIN_PASSWORD == "schooladmin"

DEFAULT_FACTORS ==
    ("Paper (sheets)" :> 5) @@ ("Plastic (kg)" :> 6000) @@
    ("Food/Waste (kg)" :> 3000) @@ ("Transport (km)" :> 210)

\* the order of DEFAULT_FACTORS.items(): the rowid order of the factors table
CategoryOrder ==
    <<"Paper (sheets)", "Plastic (kg)", "Food/Waste (kg)", "Transport (km)">>

\* inputs of the model
StudentInputs == {"Asha", " "}
ClassInputs == {"7A", ""}
CategoryInputs == {"Plastic (kg)"}
\* -1 is below the min_value=0.0 of the quantity widget: only a client that
\* ignores the widget's bounds sends it
QuantityInputs == {-1, 0, 2}
PasswordInputs == {ADMIN_PASSWORD, "guess"}
\* the numbers an admin types into the factor column of the data editor
FactorInputs == {-1000}
EditableCategories == {"Plastic (kg)"}
TimeframeInputs == {"All Time", "Last 7 Days"}
\* pd.Timestamp.now(): noon of day 40, in half days
now == 2 * 40 + 1
\* dates picked in st.date_input
DateInputs == {40}

(***************************************************************************)
(* Helpers on sets and sequences                                           *)
(***************************************************************************)

RECURSIVE SumCo2(_)
\* Series.sum() of the co2 column of a set of rows
SumCo2(rows) ==
    IF rows = {} THEN 0
    ELSE LET r == CHOOSE x \in rows : TRUE
         IN r.co2 + SumCo2(rows \ {r})

Rows(df) == {df[i] : i \in 1..Len(df)}

\* str.strip() on the model's strings: blanks only strip to the empty string
Strip(str) == IF str \in {"", " "} THEN "" ELSE str


\* pd.to_datetime(date): midnight of the day, in half days
to_datetime(day) == 2 * day

\* pd.Timedelta(days=n), in half days
Timedelta(days) == 2 * days

RECURSIVE OrderByTimestampDesc(_)
\* SELECT * FROM entries ORDER BY timestamp DESC
OrderByTimestampDesc(rows) ==
    IF rows = {} THEN <<>>
    ELSE LET r == CHOOSE x \in rows : \A y \in rows : y.timestamp <= x.timestamp
         IN <<r>> \o OrderByTimestampDesc(rows \ {r})

RECURSIVE SortValuesAscending(_)
\* DataFrame.sort_values(by='co2', ascending=True).reset_index(drop=True): every
\* order of the rows that is ascending in co2 (the default sort is not stable,
\* so rows with equal co2 may come in either order)
SortValuesAscending(rows) ==
    IF rows = {} THEN {<<>>}
    ELSE UNION {{<<m>> \o t : t \in SortValuesAscending(rows \ {m})} :
                m \in {x \in rows : \A y \in rows : x.co2 <= y.co2}}

\* DataFrame.head(n)
head(df, n) == SubSeq(df, 1, IF Len(df) < n THEN Len(df) ELSE n)

(***************************************************************************)
(* Database helpers                                                        *)
(***************************************************************************)

\* INSERT OR REPLACE of every default factor: the row of a default category
\* is overwritten
init_db_replacing(tbl) ==
    [c \in DOMAIN tbl \cup DOMAIN DEFAULT_FACTORS |->
        IF c \in DOMAIN DEFAULT_FACTORS THEN DEFAULT_FACTORS[c] ELSE tbl[c]]

\* INSERT OR IGNORE of every default factor: a row is added only when its
\* category is absent
init_db(tbl) ==
    [c \in DOMAIN tbl \cup DOMAIN DEFAULT_FACTORS |->
        IF c \in DOMAIN tbl THEN tbl[c] ELSE DEFAULT_FACTORS[c]]

\* SELECT category, factor FROM factors, as a dict
get_factors(tbl) == tbl

\* REPLACE INTO factors (category, factor) VALUES (?, float(factor))
set_factor(tbl, category, factor) ==
    [c \in DOMAIN tbl \cup {category} |-> IF c = category THEN factor ELSE tbl[c]]

\* the largest rowid of the table, 0 when it is empty
MaxRowid(rows) ==
    IF rows = {} THEN 0
    ELSE LET r == CHOOSE x \in rows : \A y \in rows : y.id <= x.id IN r.id

\* id INTEGER PRIMARY KEY without AUTOINCREMENT: one more than the largest
\* rowid the table holds now
NextRowid_of_plain_key(rows, seq) == MaxRowid(rows) + 1

\* id INTEGER PRIMARY KEY AUTOINCREMENT: one more than the largest rowid the
\* table has ever held, which SQLite keeps in sqlite_sequence
NextRowid(rows, seq) ==
    (IF MaxRowid(rows) > seq THEN MaxRowid(rows) ELSE seq) + 1

\* INSERT OR IGNORE under a UNIQUE(student, class_name, date, category)
\* constraint: a second entry of the same student, day and category is dropped
add_entry_to_db_unique(rows, seq, entry) ==
    IF \E r \in rows : /\ r.student = entry.student
                       /\ r.class_name = entry.class_name
                       /\ r.date = entry.date
                       /\ r.category = entry.category
    THEN rows
    ELSE rows \cup {[id |-> NextRowid(rows, seq),
                     timestamp |-> entry.timestamp,
                     date |-> entry.date,
                     student |-> entry.student,
                     class_name |-> entry.class_name,
                     category |-> entry.category,
                     quantity |-> entry.quantity,
                     unit |-> entry.unit,
                     notes |-> entry.notes,
                     verified |-> entry.verified,
                     points |-> entry.points,
                     co2 |-> entry.co2]}

\* INSERT INTO entries (...) VALUES (...): the row that is stored
add_entry_to_db(rows, seq, entry) ==
    rows \cup {[id |-> NextRowid(rows, seq),
                timestamp |-> entry.timestamp,
                date |-> entry.date,
                student |-> entry.student,
                class_name |-> entry.class_name,
                category |-> entry.category,
                quantity |-> entry.quantity,
                unit |-> entry.unit,
                notes |-> entry.notes,
                verified |-> entry.verified,
                points |-> entry.points,
                co2 |-> entry.co2]}

\* SELECT * FROM entries ORDER BY timestamp DESC, then the verified filter
load_entries(rows, only_verified) ==
    LET df == OrderByTimestampDesc(rows)
    IN IF only_verified = "None" THEN df
       ELSE SelectSeq(df, LAMBDA r :
                r.verified = (IF only_verified = "True" THEN 1 ELSE 0))

\* UPDATE entries SET verified=1, the WHERE clause forgotten
verify_entry_of_every_row(rows, entry_id) ==
    {[r EXCEPT !.verified = 1] : r \in rows}

\* UPDATE entries SET verified=1 WHERE id=?
verify_entry(rows, entry_id) ==
    {IF r.id = entry_id THEN [r EXCEPT !.verified = 1] ELSE r : r \in rows}

\* DELETE FROM entries WHERE verified=0
clear_unverified_entries(rows) == {r \in rows : r.verified = 1}

\* DELETE FROM entries
clear_all_entries(rows) == {}

(***************************************************************************)
(* Business logic                                                          *)
(***************************************************************************)

\* the factor looked up in DEFAULT_FACTORS instead of the factors passed
compute_co2_with_default_factor(category, quantity, factors) ==
    quantity * (IF category \in DOMAIN DEFAULT_FACTORS
                THEN DEFAULT_FACTORS[category] ELSE 0)

\* float(quantity) * float(factors.get(category, 0))
compute_co2(category, quantity, factors) ==
    quantity * (IF category \in DOMAIN factors THEN factors[category] ELSE 0)

\* int(round(max(1, co2 * 2))): Python rounds halves to the even integer
points_for_co2(co2) ==
    LET x == IF 2 * co2 > 1000 THEN 2 * co2 ELSE 1000
        q == x \div 1000
        r == x % 1000
    IN IF r > 500 \/ (r = 500 /\ q % 2 = 1) THEN q + 1 ELSE q

(***************************************************************************)
(* Aggregations of the dashboard and leaderboard tabs                      *)
(***************************************************************************)

\* df[df['date'] >= now - pd.Timedelta(days=n)]
Since(df, days) ==
    SelectSeq(df, LAMBDA r : to_datetime(r.date) >= now - Timedelta(days))

\* the timeframe filter of the leaderboard tab
TimeframeFilter(df, timeframe) ==
    IF timeframe = "Last 7 Days" THEN Since(df, 7)
    ELSE IF timeframe = "Last 30 Days" THEN Since(df, 30)
    ELSE IF timeframe = "Last 365 Days" THEN Since(df, 365)
    ELSE df

\* df.groupby('class_name')['co2'].sum().reset_index()
GroupByClass(df) ==
    {[class_name |-> c,
      co2 |-> SumCo2({r \in Rows(df) : r.class_name = c})] :
        c \in {r.class_name : r \in Rows(df)}}

\* df.groupby(['student', 'class_name']).agg({'co2':'sum'}).reset_index()
GroupByStudent(df) ==
    {[student |-> g[1], class_name |-> g[2],
      co2 |-> SumCo2({r \in Rows(df) :
                        r.student = g[1] /\ r.class_name = g[2]})] :
        g \in {<<r.student, r.class_name>> : r \in Rows(df)}}

\* leaderboard['rank'] = leaderboard.index + 1
WithRank(board) ==
    [i \in 1..Len(board) |->
        [student |-> board[i].student, class_name |-> board[i].class_name,
         co2 |-> board[i].co2, rank |-> i]]

\* the class / section comparison of the leaderboard tab
ClassEmissions(df) == SortValuesAscending(GroupByClass(df))

\* the student leaderboard of the leaderboard tab
Leaderboard(entries, timeframe) ==
    {WithRank(b) :
        b \in SortValuesAscending(GroupByStudent(TimeframeFilter(entries, timeframe)))}

\* the weekly top 3 of the dashboard tab
WeeklyLeaderboard(weekly_entries) ==
    {WithRank(head(b, 3)) :
        b \in SortValuesAscending(GroupByStudent(Since(weekly_entries, 7)))}

(***************************************************************************)
(* State                                                                   *)
(***************************************************************************)

VARIABLES
    db_factors,          \* table factors: category -> factor
    db_entries,          \* table entries: the set of its rows
    sqlite_sequence,     \* the largest id entries has ever held
    clock,               \* datetime.now(), advanced by every reading
    issued,              \* history: every id an inserted row has been given
    pc,                  \* per session: where its script run stands
    clicked,             \* per session: the button whose press started the run
    pwd,                 \* per session: the content of the password input
    screen,              \* per session: what the last run drew
    clear_clicks,        \* history, per session: presses of "Clear All
                         \* Entries" since the session last deleted the entries
    factors,             \* per session: main's factors = get_factors()
    entry_id,            \* per session: the id of the verify button pressed
    edited,              \* per session: the rows of the data editor
    row,                 \* per session: the next row of the save loop
    status               \* per session: the st.error / st.success just drawn

dbvars == <<db_factors, db_entries, sqlite_sequence, clock, issued>>
vars == <<db_factors, db_entries, sqlite_sequence, clock, issued, pc, clicked,
          pwd, screen, clear_clicks, factors, entry_id, edited, row, status>>

NoFactors == [c \in {} |-> 0]

Init ==
    /\ db_factors = NoFactors
    /\ db_entries = {}
    /\ sqlite_sequence = 0
    /\ clock = 1
    /\ issued = {}
    /\ pc = [s \in Sessions |-> "idle"]
    /\ clicked = [s \in Sessions |-> "none"]
    /\ pwd = [s \in Sessions |-> ""]
    /\ screen = [s \in Sessions |-> "none"]
    /\ clear_clicks = [s \in Sessions |-> 0]
    /\ factors = [s \in Sessions |-> NoFactors]
    /\ entry_id = [s \in Sessions |-> 0]
    /\ edited = [s \in Sessions |-> NoFactors]
    /\ row = [s \in Sessions |-> 0]
    /\ status = [s \in Sessions |-> ""]

(***************************************************************************)
(* User interactions.  Each starts a script run of the session: Streamlit  *)
(* runs main() from the top with the pressed button reading True.  The     *)
(* values of the other widgets are drawn where the run reads them.         *)
(***************************************************************************)

StartRun(s, button) ==
    /\ pc' = [pc EXCEPT ![s] = "init_db"]
    /\ clicked' = [clicked EXCEPT ![s] = button]
    /\ factors' = [factors EXCEPT ![s] = NoFactors]
    /\ entry_id' = [entry_id EXCEPT ![s] = 0]
    /\ edited' = [edited EXCEPT ![s] = NoFactors]
    /\ row' = [row EXCEPT ![s] = 0]
    /\ status' = [status EXCEPT ![s] = ""]

\* opening the page, or an interaction that changes nothing main() reads
View(s) ==
    /\ pc[s] = "idle"
    /\ StartRun(s, "none")
    /\ UNCHANGED <<dbvars, pwd, screen, clear_clicks>>

\* typing into the password input
EnterPassword(s) ==
    /\ pc[s] = "idle"
    /\ screen[s] # "none"
    /\ \E p \in PasswordInputs \cup {""} :
          /\ p # pwd[s]
          /\ pwd' = [pwd EXCEPT ![s] = p]
    /\ StartRun(s, "none")
    /\ UNCHANGED <<dbvars, screen, clear_clicks>>

\* pressing the submit button of the entry form
ClickSubmit(s) ==
    /\ pc[s] = "idle"
    /\ screen[s] # "none"
    /\ StartRun(s, "submit")
    /\ UNCHANGED <<dbvars, pwd, screen, clear_clicks>>

\* pressing a verify button of the admin tab
ClickVerify(s) ==
    /\ pc[s] = "idle"
    /\ screen[s] = "admin"
    /\ StartRun(s, "verify")
    /\ UNCHANGED <<dbvars, pwd, screen, clear_clicks>>

\* pressing Save under the data editor
ClickSave(s) ==
    /\ pc[s] = "idle"
    /\ screen[s] = "admin"
    /\ StartRun(s, "save")
    /\ UNCHANGED <<dbvars, pwd, screen, clear_clicks>>

\* pressing "Clear All Entries"
ClickClear(s) ==
    /\ pc[s] = "idle"
    /\ screen[s] = "admin"
    /\ StartRun(s, "clear")
    /\ clear_clicks' = [clear_clicks EXCEPT ![s] = @ + 1]
    /\ UNCHANGED <<dbvars, pwd, screen>>

(***************************************************************************)
(* What a run draws on the dashboard and leaderboard tabs.  The tabs read  *)
(* the database only, so lines 338-555 are one step of the run; these are  *)
(* the tables and rankings that step draws when entries holds `rows`.      *)
(***************************************************************************)

\* dashboard tab: entries = load_entries(), and df is all of them.  (The
\* timeframe filter of df, like the rest of the tab, is nested under the
\* else of "if len(entries) > 0" and runs only when there are no entries.)
DashboardDf(rows) == load_entries(rows, "None")

\* leaderboard tab: df.groupby('class_name')['co2'].sum(), sorted ascending:
\* the tables st.dataframe may draw
ClassComparison(rows) == ClassEmissions(DashboardDf(rows))

\* leaderboard tab: the rankings st.dataframe may draw for a timeframe, none
\* when entries = load_entries(only_verified=True) is empty
StudentLeaderboard(rows, timeframe) ==
    LET entries == load_entries(rows, "True")
    IN IF Len(entries) = 0 THEN {} ELSE Leaderboard(entries, timeframe)

\* dashboard tab: the weekly top 3 that may be drawn, none when the branch
\* is not taken or there is no verified entry of the last 7 days
WeeklyTop3(rows) ==
    LET weekly_entries == load_entries(rows, "True")
    IN IF Len(DashboardDf(rows)) > 0 \/ Len(weekly_entries) = 0
          \/ Len(Since(weekly_entries, 7)) = 0
       THEN {}
       ELSE WeeklyLeaderboard(weekly_entries)

\* what the run of a session at its tabs step draws
class_emissions == ClassComparison(db_entries)
leaderboard(timeframe) == StudentLeaderboard(db_entries, timeframe)
weekly_leaderboard == WeeklyTop3(db_entries)

(***************************************************************************)
(* The steps of one script run of main()                                   *)
(***************************************************************************)

\* main() returns: the session waits for the next interaction
EndRun(s) ==
    /\ pc' = [pc EXCEPT ![s] = "idle"]
    /\ factors' = [factors EXCEPT ![s] = NoFactors]
    /\ edited' = [edited EXCEPT ![s] = NoFactors]
    /\ row' = [row EXCEPT ![s] = 0]
    /\ entry_id' = [entry_id EXCEPT ![s] = 0]

\* st.rerun(): the run stops here and main() starts again, no button pressed
Rerun(s) == StartRun(s, "none")

\* init_db()
InitDb(s) ==
    /\ pc[s] = "init_db"
    /\ db_factors' = init_db(db_factors)
    /\ pc' = [pc EXCEPT ![s] = "get_factors"]
    /\ UNCHANGED <<db_entries, sqlite_sequence, clock, issued, clicked, pwd,
                   screen, clear_clicks, factors, entry_id, edited, row, status>>

\* factors = get_factors()
GetFactors(s) ==
    /\ pc[s] = "get_factors"
    /\ factors' = [factors EXCEPT ![s] = get_factors(db_factors)]
    /\ pc' = [pc EXCEPT ![s] = "tabs"]
    /\ UNCHANGED <<dbvars, clicked, pwd, screen, clear_clicks, entry_id, edited,
                   row, status>>

\* the category the selectbox returns: the chosen option, or the first one
\* when the choice is no option (None when there is no option)
SelectedCategory(options, choice) ==
    IF choice \in options THEN choice
    ELSE IF options = {} THEN "None"
    ELSE CHOOSE c \in options : TRUE

\* the entry the form builds from its fields
NewEntry(student, class_name, date_val, choice, qty, fs, timestamp) ==
    LET category == SelectedCategory(DOMAIN fs \ {"Electricity"}, choice)
        co2 == compute_co2(category, qty, fs)
        pts == points_for_co2(co2)
    IN [timestamp |-> timestamp, date |-> date_val, student |-> student,
        class_name |-> class_name, category |-> category, quantity |-> qty,
        unit |-> "kg", notes |-> "", verified |-> 0, points |-> 0, co2 |-> co2]

\* the st.error of the form's validation, "" when the fields pass it
Rejected(student, class_name, qty) ==
    IF Strip(student) = "" THEN "Student name is required."
    ELSE IF Strip(class_name) = "" THEN "Class/Section is required."
    ELSE IF qty <= 0 THEN "Quantity must be greater than 0."
    ELSE ""

\* the add entry tab when the form was submitted with these fields
EntryForm(s, student, class_name, date_val, choice, qty) ==
    IF Rejected(student, class_name, qty) # ""
    THEN /\ status' = [status EXCEPT ![s] = Rejected(student, class_name, qty)]
         /\ UNCHANGED <<db_entries, sqlite_sequence, issued, clock>>
    ELSE /\ sqlite_sequence < MaxEntries
         /\ db_entries' = add_entry_to_db(db_entries, sqlite_sequence,
                NewEntry(student, class_name, date_val, choice, qty,
                         factors[s], clock))
         /\ sqlite_sequence' = NextRowid(db_entries, sqlite_sequence)
         /\ issued' = issued \cup {NextRowid(db_entries, sqlite_sequence)}
         /\ clock' = clock + 1
         /\ status' = [status EXCEPT ![s] = "Response Saved"]

\* the dashboard, add entry and leaderboard tabs (lines 338-555): only the
\* add entry tab writes
Tabs(s) ==
    /\ pc[s] = "tabs"
    /\ IF clicked[s] = "submit"
       THEN \E student \in StudentInputs, class_name \in ClassInputs,
               date_val \in DateInputs, choice \in CategoryInputs,
               qty \in QuantityInputs :
               EntryForm(s, student, class_name, date_val, choice, qty)
       ELSE UNCHANGED <<db_entries, sqlite_sequence, issued, clock, status>>
    /\ pc' = [pc EXCEPT ![s] = "admin"]
    /\ UNCHANGED <<db_factors, clicked, pwd, screen, clear_clicks, factors,
                   entry_id, edited, row>>

\* "if pwd:", any password typed opens the admin tab
NonEmptyPassword(p) == p # ""

\* if pwd == ADMIN_PASSWORD
Authenticated(p) == p = ADMIN_PASSWORD

\* the cells an admin has changed in the data editor before pressing Save
EditInputs ==
    UNION {[cs -> FactorInputs] : cs \in SUBSET EditableCategories}

\* edited = st.data_editor(factors_df): the run's factors with the edits
Edited(fs, edits) ==
    [c \in DOMAIN fs |-> IF c \in DOMAIN edits THEN edits[c] ELSE fs[c]]

\* the categories of the data editor's rows, in the order of the rows
RowOrder(fs) == SelectSeq(CategoryOrder, LAMBDA c : c \in DOMAIN fs)

\* admin tab up to the buttons: the password gate, entries = load_entries()
\* and a verify button for every unverified row; then the button pressed.
\* The verify button pressed is one the previous run drew; a run that only
\* redraws changes nothing else, so the press may name any button this run
\* draws, or one that this run draws no longer.  edit_inputs are the edits
\* the admin may have made in the data editor.
AdminPage(s, edit_inputs) ==
    /\ pc[s] = "admin"
    /\ IF ~Authenticated(pwd[s])
       THEN /\ screen' = [screen EXCEPT ![s] = "public"]
            /\ EndRun(s)
       ELSE LET entries == load_entries(db_entries, "None")
                buttons == {r.id : r \in {x \in Rows(entries) : x.verified = 0}}
            IN /\ screen' = [screen EXCEPT ![s] = "admin"]
               /\ IF clicked[s] = "verify"
                  THEN \/ \E i \in buttons :
                            /\ entry_id' = [entry_id EXCEPT ![s] = i]
                            /\ pc' = [pc EXCEPT ![s] = "verify_entry"]
                            /\ UNCHANGED <<factors, edited, row>>
                       \/ EndRun(s)
                  ELSE IF clicked[s] = "save" /\ DOMAIN factors[s] # {}
                  THEN \E edits \in edit_inputs :
                            /\ edited' = [edited EXCEPT ![s] =
                                             Edited(factors[s], edits)]
                            /\ row' = [row EXCEPT ![s] = 1]
                            /\ pc' = [pc EXCEPT ![s] = "save"]
                            /\ UNCHANGED <<factors, entry_id>>
                  ELSE IF clicked[s] = "clear"
                  THEN /\ pc' = [pc EXCEPT ![s] = "clear"]
                       /\ UNCHANGED <<factors, entry_id, edited, row>>
                  ELSE EndRun(s)
    /\ UNCHANGED <<dbvars, clicked, pwd, clear_clicks, status>>

AdminTab(s) == AdminPage(s, EditInputs)

\* verify_entry(int(row['id'])); st.rerun()
VerifyEntry(s) ==
    /\ pc[s] = "verify_entry"
    /\ db_entries' = verify_entry(db_entries, entry_id[s])
    /\ Rerun(s)
    /\ UNCHANGED <<db_factors, sqlite_sequence, clock, issued, pwd, screen,
                   clear_clicks>>

\* one turn of "for _, r in edited.iterrows(): set_factor(r['category'],
\* r['factor'])", and st.success("Saved factors") after the last
SaveFactor(s) ==
    /\ pc[s] = "save"
    /\ LET category == RowOrder(edited[s])[row[s]]
       IN db_factors' = set_factor(db_factors, category, edited[s][category])
    /\ IF row[s] = Len(RowOrder(edited[s]))
       THEN /\ EndRun(s)
            /\ status' = [status EXCEPT ![s] = "Saved factors"]
       ELSE /\ row' = [row EXCEPT ![s] = @ + 1]
            /\ UNCHANGED <<pc, factors, edited, entry_id, status>>
    /\ UNCHANGED <<db_entries, sqlite_sequence, clock, issued, clicked, pwd,
                   screen, clear_clicks>>

\* clear_all_entries(); st.rerun()
ClearAll(s) ==
    /\ pc[s] = "clear"
    /\ db_entries' = clear_all_entries(db_entries)
    /\ clear_clicks' = [clear_clicks EXCEPT ![s] = 0]
    /\ Rerun(s)
    /\ UNCHANGED <<db_factors, sqlite_sequence, clock, issued, pwd, screen>>

Next ==
    \E s \in Sessions :
        \/ View(s)
        \/ EnterPassword(s)
        \/ ClickSubmit(s)
        \/ ClickVerify(s)
        \/ ClickSave(s)
        \/ ClickClear(s)
        \/ InitDb(s)
        \/ GetFactors(s)
        \/ Tabs(s)
        \/ AdminTab(s)
        \/ VerifyEntry(s)
        \/ SaveFactor(s)
        \/ ClearAll(s)

Spec == Init /\ [][Next]_vars

(***************************************************************************)
(* The tabs over ledgers with several students and classes: one session    *)
(* redraws the page over a ledger that earlier submissions and             *)
(* verifications have left.                                                *)
(***************************************************************************)

\* the ledger holds at most this many entries
MaxViewEntries == 2

ViewStudents == {"Asha", "Ravi"}
ViewClasses == {"7A", "7B"}
ViewQuantities == {2, 4}
ViewDates == {40, 10}

RECURSIVE Ledgers(_)
\* the ledgers that n submissions, each verified afterwards or not, leave
Ledgers(n) ==
    IF n = 0 THEN {{}}
    ELSE LET Added(rows) ==
                 {add_entry_to_db(rows, Cardinality(rows),
                      NewEntry(st, cl, d, "Plastic (kg)", q, DEFAULT_FACTORS,
                               Cardinality(rows) + 1)) :
                      st \in ViewStudents, cl \in ViewClasses,
                      d \in ViewDates, q \in ViewQuantities}
         IN UNION {UNION {{rows2, verify_entry(rows2, Cardinality(rows2))} :
                               rows2 \in Added(rows)} :
                      rows \in Ledgers(n - 1)}

InitView ==
    /\ db_factors = init_db(NoFactors)
    /\ \E n \in 0..MaxViewEntries : db_entries \in Ledgers(n)
    /\ sqlite_sequence = Cardinality(db_entries)
    /\ clock = Cardinality(db_entries) + 1
    /\ issued = 1..Cardinality(db_entries)
    /\ pc = [s \in Sessions |-> "idle"]
    /\ clicked = [s \in Sessions |-> "none"]
    /\ pwd = [s \in Sessions |-> ""]
    /\ screen = [s \in Sessions |-> "none"]
    /\ clear_clicks = [s \in Sessions |-> 0]
    /\ factors = [s \in Sessions |-> NoFactors]
    /\ entry_id = [s \in Sessions |-> 0]
    /\ edited = [s \in Sessions |-> NoFactors]
    /\ row = [s \in Sessions |-> 0]
    /\ status = [s \in Sessions |-> ""]

NextView ==
    \/ View("s1")
    \/ InitDb("s1")
    \/ GetFactors("s1")
    \/ Tabs("s1")
    \/ AdminTab("s1")

SpecView == InitView /\ [][NextView]_vars

(***************************************************************************)
(* Saving factors while other sessions read them: the admin edits several  *)
(* cells of the data editor before pressing Save, and nobody submits,      *)
(* verifies or clears.                                                     *)
(***************************************************************************)

SaveFactorInputs == {1000}
SaveCategories == {"Paper (sheets)", "Plastic (kg)"}

\* the cells an admin has changed in the data editor before pressing Save
SaveEditInputs ==
    UNION {[cs -> SaveFactorInputs] : cs \in SUBSET SaveCategories}

AdminTabSave(s) == AdminPage(s, SaveEditInputs)

NextSave ==
    \E s \in Sessions :
        \/ View(s)
        \/ EnterPassword(s)
        \/ ClickSave(s)
        \/ InitDb(s)
        \/ GetFactors(s)
        \/ Tabs(s)
        \/ AdminTabSave(s)
        \/ SaveFactor(s)

SpecSave == Init /\ [][NextSave]_vars

(***************************************************************************)
(* Properties                                                              *)
(***************************************************************************)

Ids(rows) == {r.id : r \in rows}

VerifiedRows(rows) == {r \in rows : r.verified = 1}

\* C1: every ranking and comparison a run draws on the leaderboard (the class
\* comparison, the student leaderboard, the weekly top 3) is computed from the
\* verified entries only: it is what the run would draw if the ledger held no
\* unverified entry.
C1_LeaderboardsFromVerifiedOnly ==
    \A s \in Sessions :
        pc[s] = "tabs" =>
            /\ class_emissions = ClassComparison(VerifiedRows(db_entries))
            /\ \A t \in TimeframeInputs :
                  leaderboard(t) = StudentLeaderboard(VerifiedRows(db_entries), t)
            /\ weekly_leaderboard = WeeklyTop3(VerifiedRows(db_entries))

\* the factor a dict of factors holds for a category, 0 when it is absent
FactorOf(fs, category) == IF category \in DOMAIN fs THEN fs[category] ELSE 0

\* the rows of the next state whose id the table does not hold now
NewRows == {r \in db_entries' : r.id \notin Ids(db_entries)}

\* every row that stays keeps its co2
Co2Kept ==
    \A r \in db_entries : \A r2 \in db_entries' : r2.id = r.id => r2.co2 = r.co2

\* C2 as stated: the co2 of an appended entry is its quantity times the factor
\* the factor table holds for its category at the moment of the append, and no
\* later step changes it.
C2_Co2FromTableAtAppend ==
    [][/\ \A r \in NewRows : r.co2 = r.quantity * FactorOf(db_factors, r.category)
       /\ Co2Kept]_vars

\* C2 amended: the co2 of an appended entry is its quantity times the factor
\* that the submitting run read with get_factors() for its category (0 when
\* absent), and no later step changes it.
C2_Co2FromRunsFactors ==
    [][/\ \A r \in NewRows :
             \E s \in Sessions :
                 /\ pc[s] = "tabs" /\ pc'[s] = "admin" /\ clicked[s] = "submit"
                 /\ r.co2 = r.quantity * FactorOf(factors[s], r.category)
       /\ Co2Kept]_vars

\* C2 witness: a verified entry whose co2 was computed with the default
\* factor, which set_factor has replaced since, with a later entry appended
C2_Witness ==
    \E r \in db_entries, r2 \in db_entries :
        /\ r.co2 = r.quantity * DEFAULT_FACTORS[r.category]
        /\ db_factors[r.category] # DEFAULT_FACTORS[r.category]
        /\ r.verified = 1
        /\ r2.id > r.id

\* C3: a step changes an entry at most by setting verified from 0 to 1, which
\* only verify_entry on its id does; entries go only when all go.
C3_EntriesImmutable ==
    [][/\ \A r \in db_entries : \A r2 \in db_entries' :
             r2.id = r.id =>
                 \/ r2 = r
                 \/ /\ r.verified = 0
                    /\ r2 = [r EXCEPT !.verified = 1]
                    /\ \E s \in Sessions : VerifyEntry(s) /\ entry_id[s] = r.id
       /\ (Ids(db_entries) \ Ids(db_entries') # {}) => db_entries' = {}]_vars

\* C3 witness: verify_entry has acted on one of two entries
C3_Witness ==
    \E r1 \in db_entries, r2 \in db_entries :
        r1.verified = 1 /\ r2.verified = 0

\* C4: verify_entry on an id that no entry has fails with NotFoundError and
\* leaves the ledger unchanged; on a verified entry it changes nothing, and
\* verifying twice leaves what verifying once leaves.
C4_VerifyUnknownIdFails ==
    [][\A s \in Sessions :
          VerifyEntry(s) =>
              /\ entry_id[s] \notin Ids(db_entries) =>
                     status'[s] = "NotFoundError" /\ db_entries' = db_entries
              /\ verify_entry(db_entries', entry_id[s]) = db_entries']_vars

\* the value the next turn of the session's save loop passes to set_factor
SavedValue(s) == edited[s][RowOrder(edited[s])[row[s]]]

\* C5: set_factor with a negative value fails with ValidationError and leaves
\* the factor table unchanged, and no factor of the table is ever negative.
C5_SetFactorRejectsNegative ==
    /\ [](\A c \in DOMAIN db_factors : db_factors[c] >= 0)
    /\ [][\A s \in Sessions :
             (SaveFactor(s) /\ SavedValue(s) < 0) =>
                 status'[s] = "ValidationError" /\ db_factors' = db_factors]_vars

\* C6: the session deletes the entries only after two of its user's actions on
\* the clear control, a proposal and a confirmation.
C6_ClearNeedsConfirmation ==
    [][\A s \in Sessions : ClearAll(s) => clear_clicks[s] >= 2]_vars

\* a session's submission inserts a row in this step
Appends(s) == pc[s] = "tabs" /\ clicked[s] = "submit" /\ Tabs(s) /\ NewRows # {}

\* C7: clear_all_entries leaves the ledger empty for every filter of
\* load_entries and leaves the factor table as it was; afterwards only a
\* submission adds a row, one at a time, and never one with an id the ledger
\* has held before.
C7_ClearAllEmptiesForGood ==
    [][/\ \A s \in Sessions :
             ClearAll(s) =>
                 /\ load_entries(db_entries', "None") = <<>>
                 /\ load_entries(db_entries', "True") = <<>>
                 /\ load_entries(db_entries', "False") = <<>>
                 /\ db_factors' = db_factors
       /\ NewRows # {} =>
             /\ \E s \in Sessions : Appends(s)
             /\ Cardinality(NewRows) = 1
             /\ \A r \in NewRows : r.id \notin issued
       /\ (db_entries = {} /\ db_entries' # {}) => \E s \in Sessions : Appends(s)]_vars

\* C7 witness: the ledger is empty after a clear_all_entries that removed
\* entries, a factor has been set since the default, and a verify_entry on a
\* removed entry is about to run
C7_Witness ==
    /\ db_entries = {}
    /\ issued # {}
    /\ db_factors["Plastic (kg)"] # DEFAULT_FACTORS["Plastic (kg)"]
    /\ \E s \in Sessions : pc[s] = "verify_entry"

\* C8: the ids of the entries are unique, and every appended entry gets an id
\* greater than every id given before, to entries since removed too.
C8_IdsStrictlyIncreasing ==
    [][/\ \A r1 \in db_entries', r2 \in db_entries' : r1.id = r2.id => r1 = r2
       /\ \A r \in NewRows : \A i \in issued : r.id > i]_vars

\* C8 witness: an entry appended after clear_all_entries removed another
C8_Witness ==
    \E r \in db_entries : \E i \in issued : i < r.id /\ i \notin Ids(db_entries)

\* the ranks of a ranking are dense: equal totals share a rank, and a rank is
\* one more than the number of distinct smaller totals
DenseRanks(board) ==
    \A i \in 1..Len(board) :
        board[i].rank =
            1 + Cardinality({board[j].co2 : j \in {k \in 1..Len(board) :
                                                   board[k].co2 < board[i].co2}})

\* C9: the student ranking has one row for every (student, class_name) of the
\* verified entries with the sum of their co2, in ascending order of the
\* sums, with dense ranks; so has the weekly top 3.
C9_DenseRanking ==
    \A s \in Sessions :
        pc[s] = "tabs" =>
            /\ \A t \in TimeframeInputs : \A board \in leaderboard(t) :
                  /\ DenseRanks(board)
                  /\ \A i \in 1..Len(board), j \in 1..Len(board) :
                        i < j => board[i].co2 <= board[j].co2
                  /\ {[student |-> board[i].student,
                       class_name |-> board[i].class_name,
                       co2 |-> board[i].co2] : i \in 1..Len(board)}
                     = GroupByStudent(TimeframeFilter(
                           load_entries(VerifiedRows(db_entries), "None"), t))
            /\ \A board \in weekly_leaderboard : DenseRanks(board)

\* C10: every stored entry has points = points_for_co2(co2), and no step
\* changes the points of an entry.
C10_PointsFromCo2 ==
    /\ [](\A r \in db_entries : r.points = points_for_co2(r.co2))
    /\ [][\A r \in db_entries : \A r2 \in db_entries' :
             r2.id = r.id => r2.points = r.points]_vars

\* the st.error messages of the entry form's validation
RejectionMessages ==
    {"Student name is required.", "Class/Section is required.",
     "Quantity must be greater than 0."}

\* C11: a submission with a blank student, a blank class or a negative
\* quantity ends in an error message and changes neither the entries nor the
\* factors; and every stored entry has a non-blank student and class, a
\* quantity >= 0 and a co2 >= 0.
C11_InvalidSubmissionRejected ==
    /\ [](\A r \in db_entries :
             /\ Strip(r.student) # "" /\ Strip(r.class_name) # ""
             /\ r.quantity >= 0 /\ r.co2 >= 0)
    /\ [][\A s \in Sessions :
             \A student \in StudentInputs, class_name \in ClassInputs,
                date_val \in DateInputs, choice \in CategoryInputs,
                qty \in QuantityInputs :
                 (/\ pc[s] = "tabs" /\ clicked[s] = "submit"
                  /\ (Strip(student) = "" \/ Strip(class_name) = "" \/ qty < 0)
                  /\ EntryForm(s, student, class_name, date_val, choice, qty)
                  /\ Tabs(s))
                 => /\ status'[s] \in RejectionMessages
                    /\ db_entries' = db_entries
                    /\ db_factors' = db_factors]_vars

\* the step is session s running its tabs after a press of the submit button
SubmitStep(s) == pc[s] = "tabs" /\ clicked[s] = "submit" /\ pc'[s] = "admin"

\* the step is the submission of session s with these fields
Submits(s, student, class_name, date_val, choice, qty) ==
    /\ EntryForm(s, student, class_name, date_val, choice, qty)
    /\ Tabs(s)

\* the step adds exactly one entry, unverified and with the fields submitted,
\* and load_entries() of the next state lists it once and every earlier entry
\* as it was
AppendsOne(s, student, class_name, qty) ==
    /\ status'[s] = "Response Saved"
    /\ \E r \in db_entries' \ db_entries :
          /\ db_entries' = db_entries \cup {r}
          /\ r.verified = 0
          /\ r.student = student /\ r.class_name = class_name
          /\ r.quantity = qty
          /\ LET df == load_entries(db_entries', "None")
             IN /\ Cardinality({i \in 1..Len(df) : df[i].id = r.id}) = 1
                /\ Len(df) = Cardinality(db_entries) + 1
                /\ \A e \in db_entries : \E i \in 1..Len(df) : df[i] = e

\* C12 as stated: every submission with a non-blank student, a non-blank class
\* and a quantity >= 0 adds exactly one entry, unverified, and load_entries()
\* then lists it once and every earlier entry unchanged.
C12_SubmissionSucceedsFromZero ==
    [][\A s \in Sessions :
          SubmitStep(s) =>
              \A student \in StudentInputs, class_name \in ClassInputs,
                 date_val \in DateInputs, choice \in CategoryInputs,
                 qty \in QuantityInputs :
                  (/\ Strip(student) # "" /\ Strip(class_name) # "" /\ qty >= 0
                   /\ Submits(s, student, class_name, date_val, choice, qty))
                  => AppendsOne(s, student, class_name, qty)]_vars

\* C12 amended: every submission with a non-blank student, a non-blank class
\* and a quantity > 0 adds exactly one entry, unverified, and load_entries()
\* then lists it once and every earlier entry unchanged; a quantity of 0 is
\* rejected and adds none.
C12_SubmissionSucceedsAboveZero ==
    [][\A s \in Sessions :
          SubmitStep(s) =>
              \A student \in StudentInputs, class_name \in ClassInputs,
                 date_val \in DateInputs, choice \in CategoryInputs,
                 qty \in QuantityInputs :
                  /\ (/\ Strip(student) # "" /\ Strip(class_name) # ""
                      /\ qty > 0
                      /\ Submits(s, student, class_name, date_val, choice, qty))
                     => AppendsOne(s, student, class_name, qty)
                  /\ (/\ qty = 0
                      /\ Submits(s, student, class_name, date_val, choice, qty))
                     => /\ status'[s] \in RejectionMessages
                        /\ db_entries' = db_entries]_vars

\* C12 witness: a submission has succeeded on a ledger that held an entry
C12_Witness ==
    /\ Cardinality(db_entries) = 2
    /\ \E s \in Sessions : status[s] = "Response Saved" /\ pc[s] = "admin"

\* C13: init_db never changes the factor of a category the table holds, so a
\* factor that set_factor wrote stays through every later run's init_db; and
\* init_db run twice leaves the table that init_db run once leaves.
C13_SeedingIdempotent ==
    /\ [](init_db(init_db(db_factors)) = init_db(db_factors))
    /\ [][\A s \in Sessions :
             InitDb(s) =>
                 /\ \A c \in DOMAIN db_factors :
                       c \in DOMAIN db_factors' /\ db_factors'[c] = db_factors[c]
                 /\ DOMAIN db_factors' = DOMAIN db_factors \cup DOMAIN DEFAULT_FACTORS
                 /\ \A c \in DOMAIN db_factors' \ DOMAIN db_factors :
                       db_factors'[c] = DEFAULT_FACTORS[c]]_vars

\* C13 witness: the only session that has run saved a factor for a default
\* category, and a later run of it has passed init_db with the factor kept
C13_Witness ==
    \E s \in Sessions :
        /\ pc[s] = "get_factors"
        /\ FactorOf(db_factors, "Plastic (kg)") # DEFAULT_FACTORS["Plastic (kg)"]
        /\ \A s2 \in Sessions \ {s} : pc[s2] = "idle" /\ screen[s2] = "none"

\* the save of session s2 is in the middle: it has written the row of a cell
\* its admin edited, and a row it has still to write differs from the table
MidSave(s2) ==
    /\ pc[s2] = "save"
    /\ LET order == RowOrder(edited[s2])
       IN /\ \E i \in 1..(row[s2] - 1) :
                edited[s2][order[i]] # factors[s2][order[i]]
          /\ \E j \in row[s2]..Len(order) :
                edited[s2][order[j]] # FactorOf(db_factors, order[j])

\* C14: no get_factors of a session reads the factor table while another
\* session's save of edited factors has written some of its rows and not the
\* others: readers see the table before an update or after it.
C14_ReadersSeeNoPartialUpdate ==
    [][\A s \in Sessions :
          GetFactors(s) => \A s2 \in Sessions \ {s} : ~MidSave(s2)]_vars

\* C15: verify_entry, set_factor and clear_all_entries run only in a run of a
\* session whose password input holds the admin password; a step that verifies
\* an entry, changes or removes a factor, or removes entries is such a run's
\* step, so without the password none of these happens.
C15_AdminOperationsNeedPassword ==
    [][/\ \A s \in Sessions :
             (pc[s] \in {"verify_entry", "save", "clear"}
              /\ (VerifyEntry(s) \/ SaveFactor(s) \/ ClearAll(s)))
             => pwd[s] = ADMIN_PASSWORD
       /\ (\E r \in db_entries, r2 \in db_entries' :
              r2.id = r.id /\ r.verified = 0 /\ r2.verified = 1)
          => \E s \in Sessions : pwd[s] = ADMIN_PASSWORD /\ VerifyEntry(s)
       /\ (\E c \in DOMAIN db_factors :
              c \notin DOMAIN db_factors' \/ db_factors'[c] # db_factors[c])
          => \E s \in Sessions : pwd[s] = ADMIN_PASSWORD /\ SaveFactor(s)
       /\ (Ids(db_entries) \ Ids(db_entries') # {})
          => \E s \in Sessions : pwd[s] = ADMIN_PASSWORD /\ ClearAll(s)]_vars

\* C15 witness: an entry has been verified, and a session whose password
\* input does not hold the admin password has just appended an entry
C15_Witness ==
    /\ \E r \in db_entries : r.verified = 1
    /\ \E s \in Sessions :
          /\ pwd[s] # ADMIN_PASSWORD
          /\ pc[s] = "admin" /\ status[s] = "Response Saved"

=============================================================================
